---- MODULE Spec2Model ----
(***************************************************************************)
(* API key lifecycle of zenml: creation, rotation with a retain period,    *)
(* update, last-used bookkeeping and key verification                      *)
(* (src/zenml/zen_stores/schemas/api_key_schemas.py and                    *)
(* src/zenml/models/api_key_models.py), and the bearer token codec         *)
(* (APIKey.encode / APIKey.decode_api_key).                                *)
(*                                                                         *)
(* Conventions.                                                            *)
(*  - Time is counted in minutes.  clock is the real (UTC) time;           *)
(*    datetime.utcnow() reads clock, datetime.now() reads clock + tz,      *)
(*    where tz is the offset of the host's local time from UTC.            *)
(*  - An Optional[T] value is a set with at most one element: {} is None.  *)
(*  - Raw secrets are the numbers 1, 2, ...: token_hex(32) never repeats.  *)
(*  - A hash string is [ident, of, salt]: ident is the scheme prefix that  *)
(*    passlib identifies the hash by ("$2b$" for bcrypt, "" for the empty  *)
(*    string), of the secret that was hashed, salt the random salt.        *)
(***************************************************************************)
EXTENDS Integers, Sequences, FiniteSets, TLC

\* ------------------------------------------------------------------ bounds
MaxTime == 2
MaxSecrets == 3
MaxRetain == 1
MaxKeyLen == 2

Secrets == 1..MaxSecrets
\* an unknown secret presented by a caller who was never given one
WrongSecret == MaxSecrets + 1
Presented == Secrets \cup {WrongSecret}
RetainPeriods == (-1)..MaxRetain
TzOffsets == {-1, 0, 1}
\* the salt bcrypt draws for a hash
Salts == {"saltA"}

VARIABLES
    rec,      \* the api_key row (APIKeySchema), or NoRecord
    clock,    \* real time, in minutes (UTC)
    tz,       \* offset of the host's local time from UTC, in minutes
    nkeys,    \* number of secrets generated so far
    expired,  \* the secrets that a rotation with retain period 0 superseded
    reply,    \* what the last operation returned to its caller
    auth_pc,  \* the authentication path: 0, or the id of the matched record
              \* between a successful verify_key and the last-used update
    codec,    \* a bearer token on its way through encode and decode
    session,  \* the unit of work of a rotation under way: its row and position
    others,   \* the rows of table api_key besides rec, in the same scope
    creating  \* the create requests past the name check, not yet inserted

vars == <<rec, clock, tz, nkeys, expired, reply, auth_pc, codec, session,
          others, creating>>

\* ------------------------------------------------------------------ values
NoRecord == [id |-> 0]

\* The empty string "" used as the dummy key_hash
EmptyStr == [ident |-> "", of |-> 0, salt |-> ""]

utcnow == clock
now == clock + tz

\* secrets.token_hex(32): a fresh random value
generate_jwt_secret_key == nkeys + 1

\* CryptContext(schemes=["bcrypt"]).hash(key): salted, one-way
get_hashed_key(key, salt) == [ident |-> "$2b$", of |-> key, salt |-> salt]

\* CryptContext(schemes=["bcrypt"]).verify(secret, hash): passlib identifies
\* the scheme of the hash by its prefix and raises UnknownHashError ("hash
\* could not be identified") when no configured scheme matches, which is the
\* case of the empty string; only hash = None is answered with a dummy
\* verification and False.
ContextVerify(secret, hash) ==
    IF hash.ident = "$2b$"
    THEN [raised |-> FALSE, value |-> hash.of = secret]
    ELSE [raised |-> TRUE, value |-> FALSE]

The(S) == CHOOSE x \in S : TRUE

\* ------------------------------------------------- APIKeySchema (the row)
\* from_request storing the un-hashed key in the row
from_request_plain(request, id, key, salt, t) ==
    [schema |-> [id |-> id,
                 name |-> request.name,
                 description |-> request.description,
                 key |-> [ident |-> "", of |-> key, salt |-> ""],
                 previous_key |-> {},
                 retain_period |-> 0,
                 active |-> TRUE,
                 created |-> t,
                 updated |-> t,
                 last_used |-> t,
                 last_rotated |-> t],
     key |-> key]

\* from_request leaving last_used and last_rotated at the epoch
from_request_unstamped(request, id, key, salt, t) ==
    [schema |-> [id |-> id,
                 name |-> request.name,
                 description |-> request.description,
                 key |-> get_hashed_key(key, salt),
                 previous_key |-> {},
                 retain_period |-> 0,
                 active |-> TRUE,
                 created |-> t,
                 updated |-> t,
                 last_used |-> 0,
                 last_rotated |-> 0],
     key |-> key]

\* APIKeySchema.from_request: the new row and the un-hashed key
from_request(request, id, key, salt, t) ==
    [schema |-> [id |-> id,
                 name |-> request.name,
                 description |-> request.description,
                 key |-> get_hashed_key(key, salt),
                 previous_key |-> {},
                 retain_period |-> 0,
                 active |-> TRUE,
                 created |-> t,
                 updated |-> t,
                 last_used |-> t,
                 last_rotated |-> t],
     key |-> key]

\* to_model passing the hashed key on, as to_internal_model does
to_model_with_key(self) ==
    [id |-> self.id,
     name |-> self.name,
     description |-> self.description,
     key |-> {self.key},
     created |-> self.created,
     updated |-> self.updated,
     last_used |-> self.last_used,
     last_rotated |-> self.last_rotated,
     retain_period_minutes |-> self.retain_period,
     active |-> self.active]

\* APIKeySchema.to_model: the public APIKeyResponseModel; key keeps its
\* default None, and the model has no previous_key field
to_model(self) ==
    [id |-> self.id,
     name |-> self.name,
     description |-> self.description,
     key |-> {},
     created |-> self.created,
     updated |-> self.updated,
     last_used |-> self.last_used,
     last_rotated |-> self.last_rotated,
     retain_period_minutes |-> self.retain_period,
     active |-> self.active]

\* APIKeySchema.to_internal_model: APIKeyInternalResponseModel, with the
\* hashed key values
to_internal_model(self) ==
    [id |-> self.id,
     name |-> self.name,
     description |-> self.description,
     key |-> {self.key},
     previous_key |-> self.previous_key,
     created |-> self.created,
     updated |-> self.updated,
     last_used |-> self.last_used,
     last_rotated |-> self.last_rotated,
     retain_period_minutes |-> self.retain_period,
     active |-> self.active]

\* APIKeyUpdateModel / APIKeyInternalUpdateModel when no field is supplied:
\* update_model makes every field optional and keeps the declared defaults
\* (description "", active True, update_last_used False)
UpdateDefaults ==
    [name |-> {}, description |-> {""}, active |-> {TRUE},
     update_last_used |-> FALSE]

\* APIKeyUpdateModel(**supplied): the fields the caller supplies (None is
\* the empty set), every other field at its declared default
APIKeyUpdateModel(supplied) ==
    [f \in DOMAIN UpdateDefaults |->
        IF f \in DOMAIN supplied THEN supplied[f] ELSE UpdateDefaults[f]]

\* update that also stamps last_used
update_and_touch(self, upd, t) ==
    LET s1 == IF upd.name # {} /\ The(upd.name) # ""
              THEN [self EXCEPT !.name = The(upd.name)] ELSE self
        s2 == IF upd.description # {} /\ The(upd.description) # ""
              THEN [s1 EXCEPT !.description = The(upd.description)] ELSE s1
        s3 == IF upd.active # {}
              THEN [s2 EXCEPT !.active = The(upd.active)] ELSE s2
    IN [s3 EXCEPT !.updated = t, !.last_used = t]

\* APIKeySchema.update
update(self, upd, t) ==
    LET s1 == IF upd.name # {} /\ The(upd.name) # ""
              THEN [self EXCEPT !.name = The(upd.name)] ELSE self
        s2 == IF upd.description # {} /\ The(upd.description) # ""
              THEN [s1 EXCEPT !.description = The(upd.description)] ELSE s1
        s3 == IF upd.active # {}
              THEN [s2 EXCEPT !.active = The(upd.active)] ELSE s2
    IN [s3 EXCEPT !.updated = t]

\* internal_update stamping last_used whatever update_last_used says
internal_update_always(self, upd, t) ==
    LET s1 == update(self, upd, t)
    IN [s1 EXCEPT !.last_used = s1.updated]

\* APIKeySchema.internal_update
internal_update(self, upd, t) ==
    LET s1 == update(self, upd, t)
    IN IF upd.update_last_used
       THEN [s1 EXCEPT !.last_used = s1.updated] ELSE s1

\* rotate that stamps last_rotated but leaves updated as it was
rotate_keeping_updated(self, rotate_request, new_key, salt, t) ==
    [schema |-> [self EXCEPT
                   !.previous_key = {self.key},
                   !.retain_period = rotate_request.retain_period_minutes,
                   !.key = get_hashed_key(new_key, salt),
                   !.last_rotated = t],
     key |-> new_key]

\* rotate that stores the size of the retain period, dropping its sign
rotate_unsigned_retain(self, rotate_request, new_key, salt, t) ==
    [schema |-> [self EXCEPT
                   !.updated = t,
                   !.previous_key = {self.key},
                   !.retain_period =
                       IF rotate_request.retain_period_minutes < 0
                       THEN 0 - rotate_request.retain_period_minutes
                       ELSE rotate_request.retain_period_minutes,
                   !.key = get_hashed_key(new_key, salt),
                   !.last_rotated = t],
     key |-> new_key]

\* rotate that also switches the key on
rotate_activating(self, rotate_request, new_key, salt, t) ==
    [schema |-> [self EXCEPT
                   !.updated = t,
                   !.previous_key = {self.key},
                   !.retain_period = rotate_request.retain_period_minutes,
                   !.key = get_hashed_key(new_key, salt),
                   !.last_rotated = t,
                   !.active = TRUE],
     key |-> new_key]

\* rotate that stores the new secret itself in the current slot
rotate_storing_secret(self, rotate_request, new_key, salt, t) ==
    [schema |-> [self EXCEPT
                   !.updated = t,
                   !.previous_key = {self.key},
                   !.retain_period = rotate_request.retain_period_minutes,
                   !.key = [ident |-> "", of |-> new_key, salt |-> ""],
                   !.last_rotated = t],
     key |-> new_key]

\* rotate that overwrites the current hash without keeping it
rotate_dropping_old(self, rotate_request, new_key, salt, t) ==
    [schema |-> [self EXCEPT
                   !.updated = t,
                   !.retain_period = rotate_request.retain_period_minutes,
                   !.key = get_hashed_key(new_key, salt),
                   !.last_rotated = t],
     key |-> new_key]

\* APIKeySchema.rotate: the updated row and the new un-hashed key
rotate(self, rotate_request, new_key, salt, t) ==
    [schema |-> [self EXCEPT
                   !.updated = t,
                   !.previous_key = {self.key},
                   !.retain_period = rotate_request.retain_period_minutes,
                   !.key = get_hashed_key(new_key, salt),
                   !.last_rotated = t],
     key |-> new_key]

\* ------------------------------------------------------- response models
\* APIKey(id=..., key=...): the pair that the bearer token carries
APIKey(id, key) == [id |-> id, key |-> key]

\* APIKeyResponseModel.set_key
set_key(model, key) == [model EXCEPT !.key = {APIKey(model.id, key)}]

\* verify_key without the retain_period_minutes > 0 condition
verify_key_any_retain(self, key) ==
    LET key_hash1 == IF self.key # {} /\ self.active
                     THEN The(self.key) ELSE EmptyStr
        result == ContextVerify(key, key_hash1)
        key_hash2 == IF /\ self.previous_key # {}
                        /\ self.active
                        /\ now - self.last_rotated < self.retain_period_minutes
                     THEN The(self.previous_key) ELSE EmptyStr
        previous_result == ContextVerify(key, key_hash2)
    IN IF result.raised
       THEN [raised |-> TRUE, value |-> FALSE, verifications |-> 1]
       ELSE IF previous_result.raised
       THEN [raised |-> TRUE, value |-> FALSE, verifications |-> 2]
       ELSE [raised |-> FALSE,
             value |-> result.value \/ previous_result.value,
             verifications |-> 2]

\* verify_key with the grace window closed one minute late (<= for <)
verify_key_inclusive(self, key) ==
    LET key_hash1 == IF self.key # {} /\ self.active
                     THEN The(self.key) ELSE EmptyStr
        result == ContextVerify(key, key_hash1)
        key_hash2 == IF /\ self.previous_key # {}
                        /\ self.active
                        /\ self.retain_period_minutes > 0
                        /\ now - self.last_rotated <= self.retain_period_minutes
                     THEN The(self.previous_key) ELSE EmptyStr
        previous_result == ContextVerify(key, key_hash2)
    IN IF result.raised
       THEN [raised |-> TRUE, value |-> FALSE, verifications |-> 1]
       ELSE IF previous_result.raised
       THEN [raised |-> TRUE, value |-> FALSE, verifications |-> 2]
       ELSE [raised |-> FALSE,
             value |-> result.value \/ previous_result.value,
             verifications |-> 2]

\* verify_key that remembers the call before it: once a verification has
\* been answered, the current hash is no longer consulted
verify_key_once(self, key) ==
    LET key_hash1 == IF self.key # {} /\ self.active /\ reply.op # "verify"
                     THEN The(self.key) ELSE EmptyStr
        result == ContextVerify(key, key_hash1)
        key_hash2 == IF /\ self.previous_key # {}
                        /\ self.active
                        /\ self.retain_period_minutes > 0
                        /\ now - self.last_rotated < self.retain_period_minutes
                     THEN The(self.previous_key) ELSE EmptyStr
        previous_result == ContextVerify(key, key_hash2)
    IN IF result.raised
       THEN [raised |-> TRUE, value |-> FALSE, verifications |-> 1]
       ELSE IF previous_result.raised
       THEN [raised |-> TRUE, value |-> FALSE, verifications |-> 2]
       ELSE [raised |-> FALSE,
             value |-> result.value \/ previous_result.value,
             verifications |-> 2]

\* APIKeyInternalResponseModel.verify_key, reading datetime.now().
\* verifications counts the calls of context.verify that were made.
verify_key(self, key) ==
    LET key_hash1 == IF self.key # {} /\ self.active
                     THEN The(self.key) ELSE EmptyStr
        result == ContextVerify(key, key_hash1)
        key_hash2 == IF /\ self.previous_key # {}
                        /\ self.active
                        /\ self.retain_period_minutes > 0
                        /\ now - self.last_rotated < self.retain_period_minutes
                     THEN The(self.previous_key) ELSE EmptyStr
        previous_result == ContextVerify(key, key_hash2)
    IN IF result.raised
       THEN [raised |-> TRUE, value |-> FALSE, verifications |-> 1]
       ELSE IF previous_result.raised
       THEN [raised |-> TRUE, value |-> FALSE, verifications |-> 2]
       ELSE [raised |-> FALSE,
             value |-> result.value \/ previous_result.value,
             verifications |-> 2]

\* ------------------------------------------------------------ token codec
\* Text is a sequence of one-character strings.  The characters the codec
\* meets, with their ASCII codes (the JSON text is ASCII: json.dumps
\* escapes every other character).
Ascii ==
    (" " :> 32) @@ ("\"" :> 34) @@ ("," :> 44) @@ ("-" :> 45) @@
    ("0" :> 48) @@ ("1" :> 49) @@ ("9" :> 57) @@ (":" :> 58) @@
    ("\\" :> 92) @@ ("a" :> 97) @@ ("d" :> 100) @@ ("e" :> 101) @@
    ("f" :> 102) @@ ("i" :> 105) @@ ("k" :> 107) @@ ("u" :> 117) @@
    ("y" :> 121) @@ ("{" :> 123) @@ ("}" :> 125)

\* a character outside ASCII (U+00E9), which json.dumps writes as \u00e9,
\* a control character (form feed, written \f), and any other character
EAcute == "U+00E9"
FormFeed == "U+000C"
OtherChar == "U+FFFD"
HexDigits == {"0", "1", "9", "a", "d", "e", "f"}
Digits == {"0", "1", "9"}

Ord(c) == Ascii[c]
HasChr(n) == \E c \in DOMAIN Ascii : Ascii[c] = n
Chr(n) == CHOOSE c \in DOMAIN Ascii : Ascii[c] = n

B64Alphabet ==
    << "A","B","C","D","E","F","G","H","I","J","K","L","M","N","O","P",
       "Q","R","S","T","U","V","W","X","Y","Z","a","b","c","d","e","f",
       "g","h","i","j","k","l","m","n","o","p","q","r","s","t","u","v",
       "w","x","y","z","0","1","2","3","4","5","6","7","8","9","+","/" >>

B64Chars == {B64Alphabet[i] : i \in 1..64}
B64Index(c) == (CHOOSE i \in 1..64 : B64Alphabet[i] = c) - 1

RECURSIVE B64EncodeBytes(_)
B64EncodeBytes(bs) ==
    IF bs = <<>> THEN <<>>
    ELSE IF Len(bs) = 1
    THEN LET n == bs[1] * 65536
         IN <<B64Alphabet[(n \div 262144) + 1],
              B64Alphabet[((n \div 4096) % 64) + 1], "=", "=">>
    ELSE IF Len(bs) = 2
    THEN LET n == bs[1] * 65536 + bs[2] * 256
         IN <<B64Alphabet[(n \div 262144) + 1],
              B64Alphabet[((n \div 4096) % 64) + 1],
              B64Alphabet[((n \div 64) % 64) + 1], "=">>
    ELSE LET n == bs[1] * 65536 + bs[2] * 256 + bs[3]
         IN <<B64Alphabet[(n \div 262144) + 1],
              B64Alphabet[((n \div 4096) % 64) + 1],
              B64Alphabet[((n \div 64) % 64) + 1],
              B64Alphabet[(n % 64) + 1]>>
            \o B64EncodeBytes(SubSeq(bs, 4, Len(bs)))

\* zenml.utils.string_utils.b64_encode: base64 of the UTF-8 bytes
b64_encode(input) ==
    B64EncodeBytes([i \in 1..Len(input) |-> Ord(input[i])])

RECURSIVE B64DecodeSextets(_)
B64DecodeSextets(xs) ==
    IF Len(xs) < 2 THEN <<>>
    ELSE IF Len(xs) = 2
    THEN <<(xs[1] * 4) + (xs[2] \div 16)>>
    ELSE IF Len(xs) = 3
    THEN <<(xs[1] * 4) + (xs[2] \div 16),
           ((xs[2] % 16) * 16) + (xs[3] \div 4)>>
    ELSE <<(xs[1] * 4) + (xs[2] \div 16),
           ((xs[2] % 16) * 16) + (xs[3] \div 4),
           ((xs[3] % 4) * 64) + xs[4]>>
         \o B64DecodeSextets(SubSeq(xs, 5, Len(xs)))

IsB64OrPad(c) == c \in B64Chars \cup {"="}

RECURSIVE TakeWhileB64(_)
TakeWhileB64(cs) ==
    IF cs = <<>> \/ cs[1] = "=" THEN <<>>
    ELSE <<cs[1]>> \o TakeWhileB64(Tail(cs))

\* zenml.utils.string_utils.b64_decode: base64.b64decode (characters outside
\* the alphabet are discarded, missing padding is an error), then the bytes
\* decoded as UTF-8.  ok = FALSE stands for the exception raised.
b64_decode(input) ==
    LET kept == SelectSeq(input, IsB64OrPad)
        data == TakeWhileB64(kept)
        pads == Len(kept) - Len(data)
        need == (4 - (Len(data) % 4)) % 4
        bytes == B64DecodeSextets([i \in 1..Len(data) |-> B64Index(data[i])])
    IN IF need = 3 \/ pads < need
       THEN [ok |-> FALSE, text |-> <<>>]
       ELSE IF \E i \in 1..Len(bytes) : ~HasChr(bytes[i])
       THEN [ok |-> FALSE, text |-> <<>>]
       ELSE [ok |-> TRUE, text |-> [i \in 1..Len(bytes) |-> Chr(bytes[i])]]

\* --- JSON text, as pydantic's .json() writes it and .parse_raw() reads it
JsonEscape(c) ==
    IF c = "\"" THEN <<"\\", "\"">>
    ELSE IF c = "\\" THEN <<"\\", "\\">>
    ELSE IF c = EAcute THEN <<"\\", "u", "0", "0", "e", "9">>
    ELSE IF c = FormFeed THEN <<"\\", "f">>
    ELSE <<c>>

RECURSIVE JsonEscapeAll(_)
JsonEscapeAll(cs) ==
    IF cs = <<>> THEN <<>> ELSE JsonEscape(cs[1]) \o JsonEscapeAll(Tail(cs))

JsonString(cs) == <<"\"">> \o JsonEscapeAll(cs) \o <<"\"">>

\* A UUID is two groups of one hex digit each (for the five groups of the
\* real one); str(uuid) joins them with a hyphen.
Uuids == {<<a, b>> : a, b \in {"0", "a", "f"}}
UuidStr(u) == <<u[1], "-", u[2]>>

IsNotHyphen(c) == c # "-"

\* uuid.UUID(text): hyphens dropped, then exactly the digits of a UUID
UuidParse(text) ==
    LET hex == SelectSeq(text, IsNotHyphen)
    IN IF Len(hex) = 2 /\ \A i \in 1..Len(hex) : hex[i] \in HexDigits
       THEN [ok |-> TRUE, uuid |-> hex]
       ELSE [ok |-> FALSE, uuid |-> <<>>]

\* APIKey.json(): {"id": "<uuid>", "key": "<key>"}
json(self) ==
    <<"{">> \o JsonString(<<"i", "d">>) \o <<":", " ">>
            \o JsonString(UuidStr(self.id)) \o <<",", " ">>
            \o JsonString(<<"k", "e", "y">>) \o <<":", " ">>
            \o JsonString(self.key) \o <<"}">>

JsonFail == [ok |-> FALSE, type |-> "", val |-> <<>>, next |-> 0]

RECURSIVE SkipWs(_, _)
SkipWs(text, i) ==
    IF i <= Len(text) /\ text[i] = " " THEN SkipWs(text, i + 1) ELSE i

\* the characters of a JSON string, from the one after its opening quote
RECURSIVE JsonStringBody(_, _, _)
JsonStringBody(text, i, acc) ==
    IF i > Len(text) THEN JsonFail
    ELSE IF text[i] = "\""
    THEN [ok |-> TRUE, type |-> "str", val |-> acc, next |-> i + 1]
    ELSE IF text[i] = "\\"
    THEN IF i + 1 > Len(text) THEN JsonFail
         ELSE IF text[i + 1] \in {"\"", "\\"}
         THEN JsonStringBody(text, i + 2, Append(acc, text[i + 1]))
         ELSE IF text[i + 1] = "f"
         THEN JsonStringBody(text, i + 2, Append(acc, FormFeed))
         ELSE IF text[i + 1] = "u"
         THEN IF /\ i + 5 <= Len(text)
                 /\ \A j \in (i + 2)..(i + 5) : text[j] \in HexDigits
              THEN JsonStringBody(
                     text, i + 6,
                     Append(acc,
                            IF SubSeq(text, i + 2, i + 5) = <<"0", "0", "e", "9">>
                            THEN EAcute ELSE OtherChar))
              ELSE JsonFail
         ELSE JsonFail
    ELSE IF text[i] \in {FormFeed}
    THEN JsonFail
    ELSE JsonStringBody(text, i + 1, Append(acc, text[i]))

RECURSIVE JsonDigits(_, _, _)
JsonDigits(text, i, acc) ==
    IF i <= Len(text) /\ text[i] \in Digits
    THEN JsonDigits(text, i + 1, Append(acc, text[i]))
    ELSE IF acc = <<>> \/ (Len(acc) > 1 /\ acc[1] = "0") THEN JsonFail
    ELSE [ok |-> TRUE, type |-> "int", val |-> acc, next |-> i]

\* a JSON value that is a string or an integer
JsonValue(text, i) ==
    IF i > Len(text) THEN JsonFail
    ELSE IF text[i] = "\"" THEN JsonStringBody(text, i + 1, <<>>)
    ELSE JsonDigits(text, i, <<>>)

ObjectFail == [ok |-> FALSE, fields |-> <<>>]

\* the members of a JSON object, from the first character after "{" or ","
RECURSIVE JsonMembers(_, _, _)
JsonMembers(text, i, acc) ==
    LET k == SkipWs(text, i)
        name == IF k <= Len(text) /\ text[k] = "\""
                THEN JsonStringBody(text, k + 1, <<>>) ELSE JsonFail
        c == SkipWs(text, name.next)
        value == IF name.ok /\ c <= Len(text) /\ text[c] = ":"
                 THEN JsonValue(text, SkipWs(text, c + 1)) ELSE JsonFail
        e == SkipWs(text, value.next)
        fields == Append(acc, [name |-> name.val, type |-> value.type,
                               val |-> value.val])
    IN IF ~value.ok \/ e > Len(text) THEN ObjectFail
       ELSE IF text[e] = ","
       THEN JsonMembers(text, e + 1, fields)
       ELSE IF text[e] = "}" /\ SkipWs(text, e + 1) > Len(text)
       THEN [ok |-> TRUE, fields |-> fields]
       ELSE ObjectFail

\* json.loads of a text that must be an object
JsonObject(text) ==
    LET i == SkipWs(text, 1)
        j == SkipWs(text, i + 1)
    IN IF i > Len(text) \/ text[i] # "{" THEN ObjectFail
       ELSE IF j <= Len(text) /\ text[j] = "}"
       THEN IF SkipWs(text, j + 1) > Len(text)
            THEN [ok |-> TRUE, fields |-> <<>>] ELSE ObjectFail
       ELSE JsonMembers(text, i + 1, <<>>)

\* the value of the last member called name, as a set: {} when there is none
Member(fields, name) ==
    LET at == {i \in 1..Len(fields) : fields[i].name = name}
    IN IF at = {} THEN {}
       ELSE {fields[CHOOSE i \in at : \A j \in at : j <= i]}

ParseFail == [ok |-> FALSE, value |-> {}]

\* APIKey.parse_raw(json_key): id must be the text of a UUID; key a string
\* (an integer is coerced to its text); other members are ignored
parse_raw(text) ==
    LET obj == JsonObject(text)
        id == Member(obj.fields, <<"i", "d">>)
        key == Member(obj.fields, <<"k", "e", "y">>)
    IN IF ~obj.ok \/ id = {} \/ key = {} THEN ParseFail
       ELSE IF The(id).type # "str" \/ ~UuidParse(The(id).val).ok THEN ParseFail
       ELSE [ok |-> TRUE,
             value |-> {APIKey(UuidParse(The(id).val).uuid, The(key).val)}]

\* encode taking the key alone, without the id
encode_key_only(self) == b64_encode(JsonString(self.key))

\* APIKey.encode
encode(self) == b64_encode(json(self))

\* decode_api_key letting the exception of the failing step through
decode_api_key_reraise(encoded_key) ==
    LET json_key == b64_decode(encoded_key)
        parsed == IF json_key.ok THEN parse_raw(json_key.text) ELSE ParseFail
    IN IF parsed.ok
       THEN [error |-> {}, value |-> parsed.value]
       ELSE IF json_key.ok
       THEN [error |-> {"ValidationError"}, value |-> {}]
       ELSE [error |-> {"binascii.Error"}, value |-> {}]

\* APIKey.decode_api_key: the decoded APIKey, or the ValueError raised
decode_api_key(encoded_key) ==
    LET json_key == b64_decode(encoded_key)
        parsed == IF json_key.ok THEN parse_raw(json_key.text) ELSE ParseFail
    IN IF parsed.ok
       THEN [error |-> {}, value |-> parsed.value]
       ELSE [error |-> {"Invalid API key."}, value |-> {}]

\* ------------------------------------------------------------ operations
\* what a caller gets back: the operation, the response model (if any),
\* what the caller presented (the key to verify, the fields of an update,
\* the retain period of a rotation)
\* and for a verification what verify_key did
Reply(op, model, presented, verdict) ==
    [op |-> op, model |-> model, presented |-> presented, verdict |-> verdict]

OptionalOf(S) == {{}} \cup {{x} : x \in S}

\* the fields of an update a caller may supply, and the values of each
UpdateFields == {"name", "description", "active"}
UpdateValues ==
    [name |-> OptionalOf({"", "svc"}),
     description |-> OptionalOf({"", "build"}),
     active |-> OptionalOf(BOOLEAN)]

\* the update requests a caller can send: any of the fields, each with a
\* value or None
UpdateRequests ==
    {[f \in D |-> full[f]] :
        full \in [name : UpdateValues.name,
                  description : UpdateValues.description,
                  active : UpdateValues.active],
        D \in SUBSET UpdateFields}

\* the update models those requests make
UpdateModels == {APIKeyUpdateModel(supplied) : supplied \in UpdateRequests}

CodecIdle == [pc |-> "idle"]

\* no unit of work open on the store (pc is the line of rotate it is at)
SessionIdle == [pc |-> 0]

Init ==
    /\ codec = CodecIdle
    /\ session = SessionIdle
    /\ others = {}
    /\ creating = {}
    /\ rec = NoRecord
    /\ clock = 0
    /\ tz \in TzOffsets
    /\ nkeys = 0
    /\ expired = {}
    /\ reply = Reply("none", {}, {}, {})
    /\ auth_pc = 0

\* time passes
Tick ==
    /\ clock < MaxTime
    /\ clock' = clock + 1
    /\ UNCHANGED <<others, creating, session, rec, tz, nkeys, expired, reply, auth_pc, codec>>

\* create(name, description) -> {record_view, raw_secret}
CreateApiKey ==
    /\ rec = NoRecord
    /\ nkeys < MaxSecrets
    /\ \E name \in {"ci"}, description \in {""}, salt \in Salts :
         LET made == from_request([name |-> name, description |-> description],
                                  generate_jwt_secret_key,
                                  generate_jwt_secret_key, salt, utcnow)
         IN /\ rec' = made.schema
            /\ reply' = Reply("create",
                              {set_key(to_model(made.schema), made.key)}, {}, {})
    /\ nkeys' = nkeys + 1
    /\ UNCHANGED <<others, creating, session, clock, tz, expired, auth_pc, codec>>

\* get(name_or_id) -> record_view
GetApiKey ==
    /\ rec # NoRecord
    /\ reply' = Reply("get", {to_model(rec)}, {}, {})
    /\ UNCHANGED <<others, creating, session, rec, clock, tz, nkeys, expired, auth_pc, codec>>

\* update(name_or_id, name?, description?, active?) -> record_view
UpdateApiKey ==
    /\ rec # NoRecord
    /\ \E upd \in UpdateModels :
         /\ rec' = update(rec, upd, utcnow)
         /\ reply' = Reply("update", {to_model(rec')}, {}, {})
    /\ UNCHANGED <<others, creating, session, clock, tz, nkeys, expired, auth_pc, codec>>

\* rotate(name_or_id, retain_period) -> {record_view, new_raw_secret}
RotateApiKey ==
    /\ rec # NoRecord
    /\ nkeys < MaxSecrets
    /\ \E retain \in RetainPeriods, salt \in Salts :
         LET made == rotate(rec, [retain_period_minutes |-> retain],
                            generate_jwt_secret_key, salt, utcnow)
         IN /\ rec' = made.schema
            /\ reply' = Reply("rotate",
                              {set_key(to_model(made.schema), made.key)},
                              {retain}, {})
            /\ expired' = IF retain = 0 THEN expired \cup {nkeys} ELSE expired
    /\ nkeys' = nkeys + 1
    /\ UNCHANGED <<others, creating, session, clock, tz, auth_pc, codec>>

\* delete(name_or_id)
DeleteApiKey ==
    /\ rec # NoRecord
    /\ rec' = NoRecord
    /\ reply' = Reply("delete", {}, {}, {})
    /\ UNCHANGED <<others, creating, session, clock, tz, nkeys, expired, auth_pc, codec>>

\* authenticate(token), up to the verification of the presented secret
Authenticate ==
    /\ rec # NoRecord
    /\ auth_pc = 0
    /\ \E key \in Presented :
         LET verdict == verify_key(to_internal_model(rec), key)
         IN /\ reply' = Reply("verify", {}, {key}, {verdict})
            /\ auth_pc' = IF ~verdict.raised /\ verdict.value THEN rec.id ELSE 0
    /\ UNCHANGED <<others, creating, session, rec, clock, tz, nkeys, expired, codec>>

\* touch_last_used(): the last-used update that follows a successful match
TouchLastUsed ==
    /\ auth_pc # 0
    /\ auth_pc' = 0
    /\ IF rec # NoRecord /\ rec.id = auth_pc
       THEN /\ rec' = internal_update(
                        rec, [UpdateDefaults EXCEPT !.update_last_used = TRUE],
                        utcnow)
            /\ reply' = Reply("touch", {to_model(rec')}, {}, {})
       ELSE /\ reply' = Reply("touch", {}, {}, {})
            /\ UNCHANGED rec
    /\ UNCHANGED <<others, creating, session, clock, tz, nkeys, expired, codec>>

Next ==
    \/ Tick
    \/ CreateApiKey
    \/ GetApiKey
    \/ UpdateApiKey
    \/ RotateApiKey
    \/ DeleteApiKey
    \/ Authenticate
    \/ TouchLastUsed

Spec == Init /\ [][Next]_vars

\* ------------------------------------------ the codec, on bounded inputs
KeyChars == {"a", "\"", "\\", EAcute}
KeyTexts == UNION {[1..n -> KeyChars] : n \in 0..MaxKeyLen}

\* the number of characters cut off the end of a token
MaxCut == 4

\* one member of a JSON object: "name": value
JsonMember(name, value) == JsonString(name) \o <<":", " ">> \o value
JsonObjectOf(members) == <<"{">> \o members \o <<"}">>
IdMember(k) == JsonMember(<<"i", "d">>, JsonString(UuidStr(k.id)))
KeyMember(k) == JsonMember(<<"k", "e", "y">>, JsonString(k.key))

\* tokens that are not the encoding of an APIKey, each with what is wrong
\* with it; k is the APIKey whose token was damaged
MalformedTokens(k) ==
    {[defect |-> "truncated", token |-> SubSeq(encode(k), 1, Len(encode(k)) - n)] :
        n \in 1..MaxCut}
    \cup
    {[defect |-> "not_json", token |-> b64_encode(UuidStr(k.id))],
     [defect |-> "not_an_object", token |-> b64_encode(JsonString(UuidStr(k.id)))],
     [defect |-> "missing_id", token |-> b64_encode(JsonObjectOf(KeyMember(k)))],
     [defect |-> "missing_key", token |-> b64_encode(JsonObjectOf(IdMember(k)))],
     [defect |-> "id_not_string",
      token |-> b64_encode(JsonObjectOf(
                  JsonMember(<<"i", "d">>, <<"1", "9">>) \o <<",", " ">>
                  \o KeyMember(k)))],
     [defect |-> "id_not_uuid",
      token |-> b64_encode(JsonObjectOf(
                  JsonMember(<<"i", "d">>, JsonString(<<k.id[1]>>))
                  \o <<",", " ">> \o KeyMember(k)))],
     [defect |-> "key_not_string",
      token |-> b64_encode(JsonObjectOf(
                  IdMember(k) \o <<",", " ">>
                  \o JsonMember(<<"k", "e", "y">>, <<"1", "9">>)))],
     [defect |-> "stray_character", token |-> <<"!">> \o encode(k)]}

InitCodec ==
    /\ session = SessionIdle
    /\ others = {}
    /\ creating = {}
    /\ rec = NoRecord
    /\ clock = 0
    /\ tz = 0
    /\ nkeys = 0
    /\ expired = {}
    /\ reply = Reply("none", {}, {}, {})
    /\ auth_pc = 0
    /\ \E id \in Uuids, key \in KeyTexts :
         \/ codec = [pc |-> "new", api_key |-> APIKey(id, key)]
         \/ \E m \in MalformedTokens(APIKey(id, key)) :
              codec = [pc |-> "foreign", api_key |-> APIKey(id, key),
                       defect |-> m.defect, token |-> m.token]

\* APIKey(id=..., key=...).encode()
EncodeApiKey ==
    /\ codec.pc = "new"
    /\ codec' = [pc |-> "encoded", api_key |-> codec.api_key,
                 token |-> encode(codec.api_key)]
    /\ UNCHANGED <<others, creating, session, rec, clock, tz, nkeys, expired, reply, auth_pc>>

\* APIKey.decode_api_key(token)
DecodeApiKey ==
    /\ codec.pc = "encoded"
    /\ codec' = [pc |-> "decoded", api_key |-> codec.api_key,
                 token |-> codec.token,
                 decoded |-> decode_api_key(codec.token)]
    /\ UNCHANGED <<others, creating, session, rec, clock, tz, nkeys, expired, reply, auth_pc>>

\* APIKey.decode_api_key(token) on a token that no encode() produced
DecodeForeignToken ==
    /\ codec.pc = "foreign"
    /\ codec' = [pc |-> "answered", api_key |-> codec.api_key,
                 defect |-> codec.defect, token |-> codec.token,
                 decoded |-> decode_api_key(codec.token)]
    /\ UNCHANGED <<others, creating, session, rec, clock, tz, nkeys, expired, reply, auth_pc>>

NextCodec ==
    \/ EncodeApiKey
    \/ DecodeApiKey
    \/ DecodeForeignToken

SpecCodec == InitCodec /\ [][NextCodec]_vars

\* ---------------------------------- update, with the request kept in view
\* rows an update can meet: a fresh one and a rotated one
StoredRecords ==
    LET created(d) == from_request([name |-> "ci", description |-> d],
                                   1, 1, The(Salts), 0).schema
    IN {created(d) : d \in {"", "build"}}
       \cup {rotate(created(""), [retain_period_minutes |-> r],
                    2, The(Salts), 0).schema : r \in RetainPeriods}

\* the store holding one of those rows
InitStored ==
    /\ codec = CodecIdle
    /\ session = SessionIdle
    /\ others = {}
    /\ creating = {}
    /\ rec \in StoredRecords
    /\ clock = 0
    /\ tz = 0
    /\ nkeys = IF rec.previous_key = {} THEN 1 ELSE 2
    /\ expired = {}
    /\ reply = Reply("none", {}, {}, {})
    /\ auth_pc = 0

\* update(name_or_id, name?, description?, active?) -> record_view, the
\* reply keeping what the caller supplied
UpdateApiKeyRequest ==
    /\ rec # NoRecord
    /\ \E supplied \in UpdateRequests :
         /\ rec' = update(rec, APIKeyUpdateModel(supplied), utcnow)
         /\ reply' = Reply("update", {to_model(rec')}, {supplied}, {})
    /\ UNCHANGED <<others, creating, session, clock, tz, nkeys, expired, auth_pc, codec>>

NextUpdate ==
    \/ Tick
    \/ UpdateApiKeyRequest

SpecUpdate == InitStored /\ [][NextUpdate]_vars

\* -------------------------------- rotate, statement by statement, against
\* a verifier that reads the stored row
\* the row after the statement of APIKeySchema.rotate at line pc
RotateStatement(self, pc, rotate_request, new_key, salt, t) ==
    IF pc = 225 THEN [self EXCEPT !.updated = t]
    ELSE IF pc = 226 THEN [self EXCEPT !.previous_key = {self.key}]
    ELSE IF pc = 227
    THEN [self EXCEPT !.retain_period = rotate_request.retain_period_minutes]
    ELSE IF pc = 229 THEN [self EXCEPT !.key = get_hashed_key(new_key, salt)]
    ELSE [self EXCEPT !.last_rotated = self.updated]

\* the line after pc; 228 and 229 are one step, 232 is the return
RotateNextLine(pc) ==
    IF pc = 227 THEN 229 ELSE IF pc = 230 THEN 232 ELSE pc + 1

\* every assignment to the session's row written through to the stored row
StoredRowWriteThrough(stored, row) == row

\* the stored row while a session holds a changed copy of it: the session's
\* writes reach the store at commit, not before
StoredRow(stored, row) == stored

\* rotate(name_or_id, retain_period): the session loads the row
RotateLoad ==
    /\ rec # NoRecord
    /\ session.pc = 0
    /\ nkeys < MaxSecrets
    /\ \E retain \in RetainPeriods :
         session' = [pc |-> 225, self |-> rec, new_key |-> 0,
                     rotate_request |-> [retain_period_minutes |-> retain]]
    /\ UNCHANGED <<others, creating, rec, clock, tz, nkeys, expired, reply, auth_pc, codec>>

\* one statement of APIKeySchema.rotate on the session's row
RotateAssign ==
    /\ session.pc \in {225, 226, 227, 229, 230}
    /\ LET new_key == IF session.pc = 229
                      THEN generate_jwt_secret_key ELSE session.new_key
           row == RotateStatement(session.self, session.pc,
                                  session.rotate_request, new_key,
                                  The(Salts), utcnow)
       IN /\ session' = [session EXCEPT !.pc = RotateNextLine(session.pc),
                                        !.self = row,
                                        !.new_key = new_key]
          /\ nkeys' = IF session.pc = 229 THEN nkeys + 1 ELSE nkeys
          /\ rec' = StoredRow(rec, row)
    /\ UNCHANGED <<others, creating, clock, tz, expired, reply, auth_pc, codec>>

\* the session commits and the caller gets the new raw secret
RotateCommit ==
    /\ session.pc = 232
    /\ rec' = session.self
    /\ reply' = Reply("rotate",
                      {set_key(to_model(session.self), session.new_key)},
                      {session.rotate_request.retain_period_minutes}, {})
    /\ expired' = IF session.rotate_request.retain_period_minutes = 0
                  THEN expired \cup {rec.key.of} ELSE expired
    /\ session' = SessionIdle
    /\ UNCHANGED <<others, creating, clock, tz, nkeys, auth_pc, codec>>

\* a verifier, reading the stored row at any point of the rotation
VerifyStoredRow ==
    /\ rec # NoRecord
    /\ \E key \in Presented :
         reply' = Reply("verify", {}, {key},
                        {verify_key(to_internal_model(rec), key)})
    /\ UNCHANGED <<others, creating, rec, clock, tz, nkeys, expired, auth_pc, codec, session>>

NextRotate ==
    \/ Tick
    \/ RotateLoad
    \/ RotateAssign
    \/ RotateCommit
    \/ VerifyStoredRow

SpecRotate == InitStored /\ [][NextRotate]_vars

\* ------------------------------------------------- the command line
\* APIKeyRotateRequestModel(): retain_period_minutes at its default
RotateRequestDefault == [retain_period_minutes |-> 0]

\* Client().rotate_api_key(name_id_or_prefix=...) as the command calls it:
\* no retain period is passed on, so the request has the default one
ClientRotate(self, new_key, salt, t) ==
    rotate(self, RotateRequestDefault, new_key, salt, t)

\* zenml api-key rotate NAME_OR_ID --retain N.  The reply keeps the N the
\* user gave, which the command announces when it is not 0.
cli_rotate_api_key ==
    /\ \E retain \in RetainPeriods :
         IF rec = NoRecord
         THEN /\ reply' = Reply("cli_error", {}, {retain}, {})
              /\ UNCHANGED <<rec, nkeys, expired>>
         ELSE /\ nkeys < MaxSecrets
              /\ LET made == ClientRotate(rec, generate_jwt_secret_key,
                                          The(Salts), utcnow)
                 IN /\ rec' = made.schema
                    /\ reply' = Reply("cli_rotate",
                                      {set_key(to_model(made.schema), made.key)},
                                      {retain}, {})
              /\ nkeys' = nkeys + 1
              /\ expired' = expired \cup {nkeys}
    /\ UNCHANGED <<others, creating, clock, tz, auth_pc, codec, session>>

\* a command that goes on after cli_utils.error as if it had returned
CliOutcomeErrorReturns(found, success) == success

\* try: Client()....  except KeyError as e: cli_utils.error(str(e)), then
\* the success message.  cli_utils.error raises, so the statements after
\* the except clause run only when the Client call returned.
CliOutcome(found, success) == IF found THEN success ELSE "cli_error"

\* zenml api-key describe NAME_OR_ID
cli_get_api_key ==
    /\ reply' = Reply(CliOutcome(rec # NoRecord, "cli_get"),
                      IF rec # NoRecord THEN {to_model(rec)} ELSE {}, {}, {})
    /\ UNCHANGED <<others, creating, rec, clock, tz, nkeys, expired, auth_pc, codec, session>>

\* zenml api-key update NAME_OR_ID [--name] [--description] [--active]:
\* the three options go to the Client as given, None when left out
cli_update_api_key ==
    /\ \E upd \in UpdateModels :
         /\ rec' = IF rec = NoRecord THEN rec ELSE update(rec, upd, utcnow)
         /\ reply' = Reply(CliOutcome(rec # NoRecord, "cli_update"),
                           IF rec # NoRecord THEN {to_model(rec')} ELSE {},
                           {}, {})
    /\ UNCHANGED <<others, creating, clock, tz, nkeys, expired, auth_pc, codec, session>>

\* zenml api-key delete NAME_OR_ID [--yes]
cli_delete_api_key ==
    /\ \E confirmation \in BOOLEAN :
         IF ~confirmation
         THEN /\ reply' = Reply("cli_cancel", {}, {}, {})
              /\ UNCHANGED rec
         ELSE IF rec = NoRecord
         THEN /\ reply' = Reply("cli_error", {}, {}, {})
              /\ UNCHANGED rec
         ELSE /\ reply' = Reply("cli_delete", {}, {}, {})
              /\ rec' = NoRecord
    /\ UNCHANGED <<others, creating, clock, tz, nkeys, expired, auth_pc, codec, session>>

NextCli ==
    \/ Tick
    \/ cli_rotate_api_key
    \/ VerifyStoredRow
    \/ DeleteApiKey
    \/ CreateApiKey
    \/ cli_get_api_key
    \/ cli_update_api_key
    \/ cli_delete_api_key

SpecCli == InitStored /\ [][NextCli]_vars

\* ------------------------------------- a stored key in use: verified,
\* touched, updated and rotated
NextUse ==
    \/ Tick
    \/ Authenticate
    \/ TouchLastUsed
    \/ UpdateApiKey
    \/ RotateApiKey

SpecUse == InitStored /\ [][NextUse]_vars

\* ------------------------------------------- creates running side by side
\* the callers that create keys, and the names they ask for
Creators == {"alice", "bob"}
KeyNames == {"ci", "svc"}

\* table api_key as upgrade() creates it: a primary key on id, foreign keys
\* on user_id and workspace_id, and no unique constraint on name, so an
\* insert is accepted whatever names the table holds
Table == (IF rec = NoRecord THEN {} ELSE {rec}) \cup others

InitCreate ==
    /\ codec = CodecIdle
    /\ session = SessionIdle
    /\ others = {}
    /\ creating = {}
    /\ rec = NoRecord
    /\ clock = 0
    /\ tz = 0
    /\ nkeys = 0
    /\ expired = {}
    /\ reply = Reply("none", {}, {}, {})
    /\ auth_pc = 0

\* create(name, description): the store looks the name up and refuses
\* (AlreadyExists) when a record has it
CreateApiKeyCheck ==
    /\ \E by \in Creators, name \in KeyNames :
         /\ \A c \in creating : c.by # by
         /\ IF \E r \in Table : r.name = name
            THEN /\ reply' = Reply("create_error", {}, {name}, {})
                 /\ UNCHANGED creating
            ELSE /\ creating' = creating \cup {[by |-> by, name |-> name]}
                 /\ UNCHANGED reply
    /\ UNCHANGED <<rec, clock, tz, nkeys, expired, auth_pc, codec, session,
                   others>>

\* create(name, description) -> {record_view, raw_secret}: the row is made
\* and inserted
CreateApiKeyInsert ==
    /\ nkeys < MaxSecrets
    /\ \E c \in creating :
         LET made == from_request([name |-> c.name, description |-> ""],
                                  generate_jwt_secret_key,
                                  generate_jwt_secret_key, The(Salts), utcnow)
         IN /\ IF rec = NoRecord
               THEN rec' = made.schema /\ UNCHANGED others
               ELSE others' = others \cup {made.schema} /\ UNCHANGED rec
            /\ reply' = Reply("create",
                              {set_key(to_model(made.schema), made.key)}, {}, {})
            /\ creating' = creating \ {c}
    /\ nkeys' = nkeys + 1
    /\ UNCHANGED <<clock, tz, expired, auth_pc, codec, session>>

NextCreate ==
    \/ Tick
    \/ CreateApiKeyCheck
    \/ CreateApiKeyInsert

SpecCreate == InitCreate /\ [][NextCreate]_vars

\* ---------------------------------------------------------------- claims
\* what verify_key does with a presented key on the stored record, now
Verify(key) == verify_key(to_internal_model(rec), key)
ReturnsTrue(v) == ~v.raised /\ v.value
ReturnsFalse(v) == ~v.raised /\ ~v.value

\* the raw secret that a create or rotate reply carries
ReturnedSecret == The(The(reply.model).key).key

\* C1: after create, verify_key with the raw secret that create returned
\* returns true, and with any other secret returns false.
C1_CreateThenVerify ==
    reply.op = "create" =>
        \A key \in Presented :
            IF key = ReturnedSecret
            THEN ReturnsTrue(Verify(key))
            ELSE ReturnsFalse(Verify(key))

\* C2: immediately after a rotate with a retain period > 0 on an active key,
\* the secret that was current before the rotation and the newly returned
\* secret both verify true.
C2_BothVerifyAfterRotate ==
    (/\ reply.op = "rotate"
     /\ rec.active
     /\ rec.retain_period > 0
     /\ clock = rec.last_rotated) =>
        /\ ReturnsTrue(Verify(ReturnedSecret))
        /\ ReturnsTrue(Verify(ReturnedSecret - 1))

\* C3: once the time elapsed since the last rotation is at least the retain
\* period, the pre-rotation secret verifies false and the current secret
\* still verifies true.
C3_ExpiredPreviousRejected ==
    (/\ rec # NoRecord
     /\ rec.active
     /\ rec.previous_key # {}
     /\ rec.retain_period > 0
     /\ clock - rec.last_rotated >= rec.retain_period) =>
        /\ ReturnsFalse(Verify(The(rec.previous_key).of))
        /\ ReturnsTrue(Verify(rec.key.of))

\* C4: a rotate with retain period 0 records the superseded hash in the
\* previous slot, and the superseded secret never verifies true, at any
\* time from that rotation on.
C4_RetainZeroNeverVerifies ==
    /\ (reply.op = "rotate" /\ rec.retain_period = 0) =>
          /\ rec.previous_key # {}
          /\ The(rec.previous_key).ident = "$2b$"
          /\ The(rec.previous_key).of = ReturnedSecret - 1
          /\ The(rec.previous_key).of \in expired
    /\ rec # NoRecord => \A key \in expired : ~ReturnsTrue(Verify(key))

\* C4 witness: the secret superseded by a rotate with retain period 0 is
\* presented to an active key, after the rotation, and is not accepted.
C4_Witness ==
    /\ rec # NoRecord
    /\ rec.active
    /\ rec.retain_period = 0
    /\ rec.previous_key # {}
    /\ reply.op = "verify"
    /\ reply.presented \subseteq expired
    /\ The(reply.presented) = The(rec.previous_key).of
    /\ clock > rec.last_rotated
    /\ ~ReturnsTrue(The(reply.verdict))

\* C5: while active = false, verify_key returns false for every presented
\* secret.
C5_InactiveReturnsFalse ==
    (rec # NoRecord /\ ~rec.active) =>
        \A key \in Presented : ReturnsFalse(Verify(key))

\* C6: every call of verify_key performs exactly two hash verifications.
C6_AlwaysTwoVerifications ==
    reply.op = "verify" => The(reply.verdict).verifications = 2

\* C7: the hash verification of the empty (dummy) hash returns false and
\* does not raise, so verify_key returns a boolean for a record with no
\* previous hash, an expired previous hash, or active = false.
C7_DummyHashNeverRaises ==
    (/\ rec # NoRecord
     /\ \/ rec.previous_key = {}
        \/ ~rec.active
        \/ clock - rec.last_rotated >= rec.retain_period) =>
        \A key \in Presented : ~Verify(key).raised

\* C8: the public projection (to_model) of every reachable record carries
\* neither the current nor the previous hash; the internal projection
\* (to_internal_model) carries both.
C8_PublicViewHasNoHashes ==
    /\ rec # NoRecord =>
          /\ to_model(rec).key = {}
          /\ "previous_key" \notin DOMAIN to_model(rec)
          /\ to_internal_model(rec).key = {rec.key}
          /\ to_internal_model(rec).previous_key = rec.previous_key
    /\ \A m \in reply.model :
          /\ "previous_key" \notin DOMAIN m
          /\ \A k \in m.key : DOMAIN k = {"id", "key"}

\* C8 witness: a rotated record, holding both hashes, has been read back.
C8_Witness ==
    /\ rec # NoRecord
    /\ rec.previous_key # {}
    /\ reply.op \in {"get", "update", "touch"}
    /\ reply.model = {to_model(rec)}

\* C9: the raw secret is returned only by create and by rotate; the stored
\* record holds hashes only, and the view returned by every other
\* operation has its key field unset.
C9_RawSecretOnlyAtCreateAndRotate ==
    /\ rec # NoRecord =>
          /\ rec.key.ident = "$2b$"
          /\ \A p \in rec.previous_key : p.ident = "$2b$"
    /\ \A m \in reply.model :
          IF reply.op \in {"create", "rotate"}
          THEN m.key = {APIKey(rec.id, rec.key.of)}
          ELSE m.key = {}

\* C9 witness: a key that was created and rotated is read by get.
C9_Witness ==
    /\ rec # NoRecord
    /\ rec.previous_key # {}
    /\ reply.op = "get"
    /\ reply.model # {}

\* C10: decoding the encoded token gives back the same id and key:
\* APIKey.decode_api_key(APIKey(id, key).encode()) = (id, key).
C10_DecodeEncodeRoundTrip ==
    codec.pc = "decoded" =>
        /\ codec.decoded.error = {}
        /\ codec.decoded.value = {codec.api_key}

\* C10 witness: a key with a quote, a backslash or a non-ASCII character in
\* it has been encoded and decoded.
C10_Witness ==
    /\ codec.pc = "decoded"
    /\ \E i \in 1..Len(codec.api_key.key) :
          codec.api_key.key[i] \in {"\"", "\\", EAcute}
    /\ codec.decoded.value # {}

\* C11 (as stated): decode_api_key fails, with the one generic error, on
\* every input that is not a well-formed token: bad base64, a payload that
\* is not JSON, a missing or ill-typed id or key.
C11_MalformedTokenFails ==
    codec.pc = "answered" => codec.decoded.error = {"Invalid API key."}

\* C11 (amended): every input decode_api_key rejects gets one and the same
\* error, ValueError("Invalid API key."), whatever step failed; it rejects
\* bad base64 padding, a payload that is not a JSON object, a missing id or
\* key and an id that is not the text of a UUID.  It accepts a key that is a
\* JSON integer (coerced to its text) and a token with characters outside
\* the base64 alphabet (they are skipped).
C11_RejectedTokensGetOneError ==
    codec.pc = "answered" =>
        /\ codec.decoded.error \subseteq {"Invalid API key."}
        /\ (codec.decoded.error = {}) <=> (codec.decoded.value # {})
        /\ codec.defect \notin {"key_not_string", "stray_character"} =>
              codec.decoded.error = {"Invalid API key."}
        /\ codec.defect = "key_not_string" =>
              codec.decoded.value = {APIKey(codec.api_key.id, <<"1", "9">>)}
        /\ codec.defect = "stray_character" =>
              codec.decoded.value = {codec.api_key}

\* C11 witness: a token cut short and a token whose payload lacks the key
\* member have each been refused.
C11_Witness ==
    /\ codec.pc = "answered"
    /\ codec.defect \in {"truncated", "missing_key", "id_not_string"}
    /\ codec.decoded.error = {"Invalid API key."}
    /\ codec.decoded.value = {}

\* C12: an update leaves every field the caller did not supply unchanged;
\* an update that supplies only a name or only a description does not
\* change active, so a deactivated key stays deactivated.
C12_UnsuppliedFieldsUnchanged ==
    [][reply'.op = "update" =>
         \A f \in UpdateFields \ DOMAIN The(reply'.presented) :
             rec'[f] = rec[f]]_vars

\* C13: after an update, name, description and active each equal the value
\* the caller supplied, the empty string and active = false included.
C13_SuppliedFieldsApplied ==
    reply.op = "update" =>
        \A f \in DOMAIN The(reply.presented) :
            The(reply.presented)[f] # {} => rec[f] = The(The(reply.presented)[f])

\* C14: a plain update (name, description, active) never changes last_used,
\* last_rotated, the current hash, the previous hash or the retain period.
C14_PlainUpdateFrame ==
    [][reply'.op = "update" =>
         /\ rec'.last_used = rec.last_used
         /\ rec'.last_rotated = rec.last_rotated
         /\ rec'.key = rec.key
         /\ rec'.previous_key = rec.previous_key
         /\ rec'.retain_period = rec.retain_period]_vars

\* C14 witness: a rotated key with a retain period has been updated, later
\* than it was last used and last rotated.
C14_Witness ==
    /\ reply.op = "update"
    /\ rec.previous_key # {}
    /\ rec.retain_period > 0
    /\ rec.updated > rec.last_used
    /\ rec.updated > rec.last_rotated

\* C15: rotate moves the hash that was current into the previous slot,
\* stores the hash of a newly generated secret as current, sets the retain
\* period to the requested value and last_rotated to the time of the
\* rotation; the returned raw secret is the one whose hash is now current.
C15_RotateShiftsHashes ==
    [][(reply'.op = "rotate" /\ nkeys' # nkeys) =>
         /\ rec'.previous_key = {rec.key}
         /\ rec'.key # rec.key
         /\ rec'.key.of \notin 1..nkeys
         /\ \E salt \in Salts : rec'.key = get_hashed_key(ReturnedSecret', salt)
         /\ rec'.retain_period = The(reply'.presented)
         /\ rec'.last_rotated = clock']_vars

\* C15 witness: a key rotated for the second time, with a retain period,
\* some time after it was created.
C15_Witness ==
    /\ reply.op = "rotate"
    /\ rec.previous_key # {}
    /\ The(rec.previous_key).of = rec.id + 1
    /\ rec.key.of = rec.id + 2
    /\ rec.retain_period > 0
    /\ rec.last_rotated = clock
    /\ rec.last_rotated > rec.created

\* C16: a record just produced by create has active = true, no previous
\* hash, retain period 0, and last_used = last_rotated = the creation time.
C16_FreshRecord ==
    [][(reply'.op = "create" /\ nkeys' # nkeys) =>
         /\ rec'.active
         /\ rec'.previous_key = {}
         /\ rec'.retain_period = 0
         /\ rec'.created = clock'
         /\ rec'.last_used = rec'.created
         /\ rec'.last_rotated = rec'.created]_vars

\* C16 witness: a key created some time after the store started, after an
\* earlier key was deleted.
C16_Witness ==
    /\ reply.op = "create"
    /\ rec # NoRecord
    /\ rec.id > 1
    /\ rec.created > 0
    /\ rec.created = clock

\* C17: after two or more rotations, a secret that was superseded two or
\* more rotations ago verifies false, whatever retain periods were used.
C17_OlderSecretsVerifyFalse ==
    rec # NoRecord =>
        \A key \in Secrets :
            (rec.id <= key /\ key < rec.key.of - 1) => ReturnsFalse(Verify(key))

\* C18: the previous hash is consulted by verify_key (the previous secret
\* is accepted) if and only if the record is active, the retain period is
\* > 0 and now - last_rotated < retain period, now being the time that
\* verify_key reads; at now - last_rotated = retain period the previous
\* secret is already rejected.
C18_PreviousConsultedIff ==
    (rec # NoRecord /\ rec.previous_key # {}) =>
        (ReturnsTrue(Verify(The(rec.previous_key).of))
            <=> /\ rec.active
                /\ rec.retain_period > 0
                /\ now - rec.last_rotated < rec.retain_period)

\* C18 witness: the previous secret is presented to an active key exactly
\* when now - last_rotated has reached the retain period, and is refused.
C18_Witness ==
    /\ rec # NoRecord
    /\ rec.active
    /\ rec.previous_key # {}
    /\ rec.retain_period > 0
    /\ now - rec.last_rotated = rec.retain_period
    /\ reply.op = "verify"
    /\ reply.presented = {The(rec.previous_key).of}
    /\ ~ReturnsTrue(The(reply.verdict))

C20_CliRetainHonoured ==
    (reply.op = "cli_rotate" /\ rec # NoRecord /\ The(reply.presented) > 0) =>
        rec.retain_period = The(reply.presented)

\* C21: after a record is deleted, every later get, update, rotate or
\* delete of it fails (NotFound): the command ends with the error and no
\* success message, and no record comes back except a newly created one;
\* the secrets of a deleted record verify against no later record.
C21_DeletedStaysGone ==
    [][/\ rec = NoRecord =>
            /\ rec' = NoRecord \/ reply'.op = "create"
            /\ reply' # reply =>
                  reply'.op \in {"cli_error", "cli_cancel", "create"}
       /\ rec' # NoRecord =>
            \A key \in Secrets :
                key < rec'.id => ~(ReturnsTrue(Verify(key)))']_vars

\* C21 witness: the key was deleted and a later command on it has ended
\* with the error.
C21_Witness ==
    /\ rec = NoRecord
    /\ nkeys > 0
    /\ reply.op = "cli_error"

\* C22: creating a second record with a name already used in the same
\* scope fails with AlreadyExists, and at no time do two records with the
\* same name exist in one scope.
C22_NamesUnique ==
    /\ reply.op = "create_error" =>
          \E r \in Table : r.name = The(reply.presented)
    /\ \A r1, r2 \in Table : r1.name = r2.name => r1 = r2

\* C23: a failed credential check is the same for every cause: whenever
\* verify_key does not accept the presented secret (wrong secret, inactive
\* key, expired grace window, no previous key) it returns false, raises no
\* error and has made the same number of hash evaluations.
C23_FailuresLookAlike ==
    rec # NoRecord =>
        \A key \in Presented :
            ~ReturnsTrue(Verify(key)) =>
                Verify(key) = [raised |-> FALSE, value |-> FALSE,
                               verifications |-> 2]

\* C24: in every reachable state of an existing record the current hash
\* slot is set and holds a hash, the hash of a secret generated for this
\* record, never the raw secret; update, touch and rotate do not clear it.
C24_CurrentHashAlwaysSet ==
    rec # NoRecord =>
        /\ to_internal_model(rec).key # {}
        /\ rec.key # EmptyStr
        /\ \E salt \in Salts : rec.key = get_hashed_key(rec.key.of, salt)
        /\ rec.key.of \in rec.id..nkeys

\* C24 witness: a key that was rotated and later deactivated by an update.
C24_Witness ==
    /\ rec # NoRecord
    /\ rec.previous_key # {}
    /\ ~rec.active
    /\ reply.op = "update"
    /\ rec.updated > rec.last_rotated

C26_LastUsedOnlyByTouch ==
    [][/\ rec'.last_used # rec.last_used =>
            reply'.op = "touch" /\ rec'.last_used = clock'
       /\ reply'.op = "verify" => rec' = rec
       /\ internal_update(rec, UpdateDefaults, utcnow).last_used
            = rec.last_used
       /\ internal_update(rec, [UpdateDefaults EXCEPT !.update_last_used = TRUE],
                          utcnow).last_used = utcnow]_vars

\* C26 witness: a touch has moved last_used to the present, later than
\* the creation and the last rotation of the key.
C26_Witness ==
    /\ reply.op = "touch"
    /\ reply.model # {}
    /\ rec.last_used = clock
    /\ rec.last_used > rec.created
    /\ rec.last_used > rec.last_rotated

\* C27: after update(active = false) followed by update(active = true) the
\* current secret verifies true again, and the previous secret verifies
\* true exactly when the time since the last rotation is still below the
\* retain period.
C27_ReactivationKeepsHistory ==
    [][(rec # NoRecord /\ ~rec.active /\ reply'.op = "update" /\ rec'.active) =>
         /\ (ReturnsTrue(Verify(rec.key.of)))'
         /\ rec'.previous_key # {} =>
               ((ReturnsTrue(Verify(The(rec.previous_key).of)))'
                   <=> clock' - rec'.last_rotated < rec'.retain_period)]_vars

C29_WindowMeasuresRealTime ==
    (rec # NoRecord /\ rec.active /\ rec.previous_key # {}
        /\ rec.retain_period > 0) =>
      (ReturnsTrue(Verify(The(rec.previous_key).of))
          <=> clock - rec.last_rotated < rec.retain_period)

\* C30: a rotation leaves active, name, description and last_used as they
\* were, and while the key is inactive, rotated or not, no secret verifies
\* true: neither the one replaced nor the one the rotation returned.
C30_RotateKeepsSwitch ==
    [][/\ (reply'.op = "rotate" /\ nkeys' # nkeys) =>
            /\ rec'.active = rec.active
            /\ rec'.name = rec.name
            /\ rec'.description = rec.description
            /\ rec'.last_used = rec.last_used
            /\ ~rec.active =>
                  /\ ~(ReturnsTrue(Verify(rec.key.of)))'
                  /\ ~(ReturnsTrue(Verify(ReturnedSecret)))'
       /\ (rec' # NoRecord /\ ~rec'.active) =>
            \A key \in Presented : ~(ReturnsTrue(Verify(key)))']_vars

\* C30 witness: an inactive key has just been rotated with a positive
\* retain period, so the replaced secret is still inside its window.
C30_Witness ==
    /\ reply.op = "rotate"
    /\ rec # NoRecord
    /\ ~rec.active
    /\ rec.previous_key # {}
    /\ rec.retain_period > 0
    /\ rec.last_rotated = clock
    /\ ReturnedSecret = rec.key.of

\* C31: the last-used touch never undoes a deactivation: when the key is
\* switched off between a successful verification and the touch that
\* follows it, the record is still inactive after the touch, and the touch
\* changes no field other than last_used and updated.
C31_TouchKeepsDeactivation ==
    [][(auth_pc # 0 /\ auth_pc' = 0 /\ rec # NoRecord /\ reply'.model # {}) =>
         /\ ~rec.active => ~rec'.active
         /\ rec' = [rec EXCEPT !.last_used = rec'.last_used,
                               !.updated = rec'.updated]]_vars

\* C32: a rotation requested with a negative retain period stores the
\* negative value as given and behaves like retain period 0: every
\* verification has the outcome it would have with retain period 0, and
\* the secret that the rotation replaced never verifies true.
C32_NegativeRetainIsZero ==
    /\ (reply.op = "rotate" /\ rec # NoRecord) =>
          rec.retain_period = The(reply.presented)
    /\ (rec # NoRecord /\ rec.retain_period < 0) =>
          \A key \in Presented :
            /\ Verify(key) =
                 verify_key(to_internal_model([rec EXCEPT !.retain_period = 0]),
                            key)
            /\ key # rec.key.of => ~ReturnsTrue(Verify(key))

\* C32 witness: an active key has just been rotated with a negative retain
\* period; the replaced secret sits in the previous slot.
C32_Witness ==
    /\ reply.op = "rotate"
    /\ rec # NoRecord
    /\ rec.active
    /\ reply.presented = {-1}
    /\ rec.retain_period = -1
    /\ rec.previous_key # {}
    /\ rec.last_rotated = clock

\* C33: with a clock that never runs backwards, every stored record has
\* created <= last_rotated <= updated and created <= last_used <= updated;
\* right after a rotation last_rotated = updated, and right after a touch
\* last_used = updated.
C33_TimestampOrder ==
    rec # NoRecord =>
      /\ rec.created <= rec.last_rotated
      /\ rec.last_rotated <= rec.updated
      /\ rec.created <= rec.last_used
      /\ rec.last_used <= rec.updated
      /\ rec.updated <= clock
      /\ reply.op = "rotate" => rec.last_rotated = rec.updated
      /\ (reply.op = "touch" /\ reply.model # {}) =>
            rec.last_used = rec.updated

\* C33 witness: a key created, later rotated and used, and updated later
\* still, so that the four timestamps are apart.
C33_Witness ==
    /\ rec # NoRecord
    /\ reply.op = "update"
    /\ rec.created < rec.last_rotated
    /\ rec.created < rec.last_used
    /\ rec.last_rotated < rec.updated
    /\ rec.last_used < rec.updated

====
